---- MODULE Spec2Model ----
(***************************************************************************)
(* Model of src/hackcheck/main.py: the HackCheckClient, its shared         *)
(* exchange routine _request, the five public operations, the search URL   *)
(* builder and the transport handle's life cycle.                          *)
(*                                                                         *)
(* Text is modelled by TLA+ strings and built with \o as the f-strings of  *)
(* the source build it.  Header values, which the source parses with       *)
(* int(), are sequences of one-character strings so that the parse is      *)
(* computed character by character.                                        *)
(***************************************************************************)
EXTENDS Integers, Sequences, FiniteSets, TLC

(***************************************************************************)
(* Bounds of the model.                                                    *)
(***************************************************************************)
MaxCalls == 2          \* calls that may overlap on one client
MaxDatabases == 2      \* length of SearchFilterOptions.databases
MaxOffset == 11        \* SearchPaginationOptions.offset ranges over 0..MaxOffset
MaxLimit == 10         \* SearchPaginationOptions.limit ranges over 1..MaxLimit

(***************************************************************************)
(* Constants of the program.                                               *)
(***************************************************************************)
API_BASE_URL == "https://api.hackcheck.io"

SearchFields ==
  {"email", "username", "full_name", "password",
   "ip_address", "phone_number", "domain", "hash"}

SearchFilters == {"use", "ignore"}

(***************************************************************************)
(* Formatting of an int inside an f-string: str(n).                        *)
(***************************************************************************)
DigitChar(d) ==
  CASE d = 0 -> "0" [] d = 1 -> "1" [] d = 2 -> "2" [] d = 3 -> "3"
    [] d = 4 -> "4" [] d = 5 -> "5" [] d = 6 -> "6" [] d = 7 -> "7"
    [] d = 8 -> "8" [] d = 9 -> "9"

RECURSIVE StrNat(_)
StrNat(n) == IF n < 10 THEN DigitChar(n) ELSE StrNat(n \div 10) \o DigitChar(n % 10)

Str(n) == IF n < 0 THEN "-" \o StrNat(0 - n) ELSE StrNat(n)

(***************************************************************************)
(* sep.join(parts)                                                         *)
(***************************************************************************)
RECURSIVE Join(_, _)
Join(sep, parts) ==
  IF Len(parts) = 0 THEN ""
  ELSE IF Len(parts) = 1 THEN parts[1]
  ELSE parts[1] \o sep \o Join(sep, Tail(parts))

(***************************************************************************)
(* Truth value of an Optional[NamedTuple] in `if options.filter:`.  A      *)
(* NamedTuple with fields is a non-empty tuple and so always true; None is *)
(* false.                                                                  *)
(***************************************************************************)
Truthy(opt) == opt.present

(***************************************************************************)
(* SearchFilterOptions, SearchPaginationOptions, SearchOptions and         *)
(* CheckOptions values.  An Optional field that is None has present =      *)
(* FALSE.                                                                  *)
(***************************************************************************)
NoFilter == [present |-> FALSE, type |-> "", databases |-> << >>]

SearchFilterOptions(type, databases) ==
  [present |-> TRUE, type |-> type, databases |-> databases]

NoPagination == [present |-> FALSE, offset |-> 0, limit |-> 0]

SearchPaginationOptions(offset, limit) ==
  [present |-> TRUE, offset |-> offset, limit |-> limit]

SearchOptions(field, query, filter, pagination) ==
  [field |-> field, query |-> query, filter |-> filter, pagination |-> pagination]

\* A NamedTuple is a tuple at run time: its field names are not part of the
\* value that isinstance(o, tuple) code sees.
CheckOptions(field, query) ==
  [kind |-> "namedtuple", names |-> <<"field", "query">>, vals |-> <<field, query>>]

\* @serde @dataclass values
UpdateAssetMonitorParams(asset_type, asset, notification_email) ==
  [kind |-> "dataclass",
   names |-> <<"asset_type", "asset", "notification_email">>,
   vals |-> <<asset_type, asset, notification_email>>]

UpdateDomainMonitorParams(domain, notification_email) ==
  [kind |-> "dataclass",
   names |-> <<"domain", "notification_email">>,
   vals |-> <<domain, notification_email>>]

(***************************************************************************)
(* serde.to_dict(o): a dataclass becomes a dict keyed by its field names;  *)
(* any other tuple instance becomes a tuple of its converted elements.     *)
(***************************************************************************)
to_dict(o) ==
  IF o.kind = "dataclass"
    THEN [py |-> "dict", keys |-> o.names, vals |-> o.vals]
    ELSE [py |-> "tuple", keys |-> << >>, vals |-> o.vals]

NoBody == [json |-> "none", keys |-> << >>, vals |-> << >>]

\* httpx's json=body argument: json.dumps of a dict is a JSON object, of a
\* tuple a JSON array, and None sends no body.
json_body(body) ==
  IF body.py = "dict" THEN [json |-> "object", keys |-> body.keys, vals |-> body.vals]
  ELSE IF body.py = "tuple" THEN [json |-> "array", keys |-> << >>, vals |-> body.vals]
  ELSE NoBody

PyNone == [py |-> "None", keys |-> << >>, vals |-> << >>]

(***************************************************************************)
(* int(x) as applied to a header value.  A str is stripped of surrounding  *)
(* whitespace, may carry one sign, and must then be a non-empty run of     *)
(* decimal digits; anything else raises ValueError.  The default 0 that    *)
(* headers.get returns for an absent header is already an int.             *)
(***************************************************************************)
Digits == {"0", "1", "2", "3", "4", "5", "6", "7", "8", "9"}

DigitVal(ch) ==
  CASE ch = "0" -> 0 [] ch = "1" -> 1 [] ch = "2" -> 2 [] ch = "3" -> 3
    [] ch = "4" -> 4 [] ch = "5" -> 5 [] ch = "6" -> 6 [] ch = "7" -> 7
    [] ch = "8" -> 8 [] ch = "9" -> 9

RECURSIVE LStrip(_)
LStrip(s) == IF Len(s) > 0 /\ s[1] = " " THEN LStrip(Tail(s)) ELSE s

RECURSIVE RStrip(_)
RStrip(s) ==
  IF Len(s) > 0 /\ s[Len(s)] = " " THEN RStrip(SubSeq(s, 1, Len(s) - 1)) ELSE s

RECURSIVE DigitsValue(_, _)
DigitsValue(s, acc) ==
  IF Len(s) = 0 THEN acc ELSE DigitsValue(Tail(s), acc * 10 + DigitVal(s[1]))

PyInt(chars) ==
  LET t == RStrip(LStrip(chars))
      signed == Len(t) > 0 /\ t[1] \in {"+", "-"}
      d == IF signed THEN Tail(t) ELSE t
      ok == Len(d) > 0 /\ \A i \in 1..Len(d) : d[i] \in Digits
      v == IF ok THEN DigitsValue(d, 0) ELSE 0
  IN  [ok |-> ok, val |-> IF signed /\ t[1] = "-" THEN 0 - v ELSE v]

\* int(response.headers.get(name, 0))
HeaderInt(headers, name) ==
  IF name \in DOMAIN headers THEN PyInt(headers[name]) ELSE [ok |-> TRUE, val |-> 0]

(***************************************************************************)
(* Response payload classes of the schema layer: the fields a JSON object  *)
(* must carry, and the Optional ones that may be missing.                  *)
(***************************************************************************)
RequiredFields(cls) ==
  CASE cls = "ErrorResponse" -> {"error"}
    [] cls = "CheckResponse" -> {"found"}
    [] cls = "SearchResponse" -> {"databases", "results", "first_seen", "last_seen"}
    [] cls = "GetMonitorsResponse" -> {"asset_monitors", "domain_monitors"}
    [] cls = "AssetMonitor" ->
         {"id", "status", "type", "asset", "notification_email",
          "expires_soon", "created_at", "ends_at"}
    [] cls = "DomainMonitor" ->
         {"id", "status", "domain", "notification_email",
          "expires_soon", "created_at", "ends_at"}

OptionalFields(cls) == IF cls = "SearchResponse" THEN {"pagination"} ELSE {}

NoData == [none |-> TRUE]

NoValue == [cls |-> "None", data |-> NoData]

\* response.json(): the parsed body, or JSONDecodeError
NotJson == [json |-> "notjson", obj |-> NoData]

JsonObject(obj) == [json |-> "object", obj |-> obj]

(***************************************************************************)
(* serde.from_dict(cls, obj): the typed value holding the declared fields  *)
(* of cls found in obj, or SerdeError when a required field is missing.    *)
(***************************************************************************)
from_dict(cls, obj) ==
  IF RequiredFields(cls) \subseteq DOMAIN obj
    THEN [ok |-> TRUE,
          value |-> [cls |-> cls,
                     data |-> [f \in (RequiredFields(cls) \cup OptionalFields(cls))
                                       \cap DOMAIN obj |-> obj[f]]]]
    ELSE [ok |-> FALSE, value |-> NoValue]

(***************************************************************************)
(* What a call ends in: kind is "ok" for a returned value and the name of  *)
(* the exception class otherwise.                                          *)
(***************************************************************************)
Returned(value) ==
  [kind |-> "ok", msg |-> "", limit |-> 0, remaining |-> 0, value |-> value]

Raised(kind, msg) ==
  [kind |-> kind, msg |-> msg, limit |-> 0, remaining |-> 0, value |-> NoValue]

RateLimitError(limit, remaining_requests) ==
  [kind |-> "RateLimitError",
   msg |-> "Rate limit reached: " \o Str(limit) \o " requests allowed, "
             \o Str(remaining_requests) \o " remaining.",
   limit |-> limit, remaining |-> remaining_requests, value |-> NoValue]

\* from_dict(ErrorResponse, response.json()) of lines 171 and 183
ErrorData(response) ==
  IF response.body.json = "notjson"
    THEN [ok |-> FALSE, exc |-> Raised("JSONDecodeError", ""), error |-> ""]
    ELSE LET d == from_dict("ErrorResponse", response.body.obj)
         IN  IF d.ok THEN [ok |-> TRUE, exc |-> Raised("", ""), error |-> d.value.data.error]
                     ELSE [ok |-> FALSE, exc |-> Raised("SerdeError", ""), error |-> ""]

(***************************************************************************)
(* HackCheckClient._request from the arrival of the response on.  Each     *)
(* branch yields [raised, exc, json]: the exception raised, or the parsed  *)
(* body that is returned.                                                  *)
(***************************************************************************)
Raise(exc) == [raised |-> TRUE, exc |-> exc, json |-> NoData]

Return(json) == [raised |-> FALSE, exc |-> Raised("", ""), json |-> json]

\* Unauthorized comparing against the message without its final period
Unauthorized_NoPeriod(response) ==
  LET data == ErrorData(response)
  IN  IF ~data.ok THEN Raise(data.exc)
      ELSE IF data.error = "Invalid API key."
        THEN Raise(Raised("InvalidAPIKeyError", "The provided API key is invalid."))
      ELSE IF data.error = "Unauthorized IP address"
        THEN Raise(Raised("UnauthorizedIPAddressError",
                          "The request is coming from an unauthorized IP address."))
      ELSE Raise(Raised("ServerError", "An unknown server error occurred."))

\* the body of `if response.status_code == 401:`
Unauthorized(response) ==
  LET data == ErrorData(response)
  IN  IF ~data.ok THEN Raise(data.exc)
      ELSE IF data.error = "Invalid API key."
        THEN Raise(Raised("InvalidAPIKeyError", "The provided API key is invalid."))
      ELSE IF data.error = "Unauthorized IP address."
        THEN Raise(Raised("UnauthorizedIPAddressError",
                          "The request is coming from an unauthorized IP address."))
      ELSE Raise(Raised("ServerError", "An unknown server error occurred."))

\* the body of `elif response.status_code == 429:`
RateLimited(response) ==
  LET limit == HeaderInt(response.headers, "X-HackCheck-Limit")
      remaining == HeaderInt(response.headers, "X-HackCheck-Remaining")
  IN  IF ~limit.ok \/ ~remaining.ok
        THEN Raise(Raised("ValueError", "invalid literal for int() with base 10"))
        ELSE Raise(RateLimitError(limit.val, remaining.val))

\* BadRequest wrapping the service's message
BadRequest_Wrapped(response) ==
  LET data == ErrorData(response)
  IN  IF ~data.ok THEN Raise(data.exc)
      ELSE Raise(Raised("Exception", "Request failed: " \o data.error))

\* the body of `elif response.status_code in {400, 404}:`
BadRequest(response) ==
  LET data == ErrorData(response)
  IN  IF ~data.ok THEN Raise(data.exc) ELSE Raise(Raised("Exception", data.error))

\* `return response.json()`
ReturnJson(response) ==
  IF response.body.json = "notjson"
    THEN Raise(Raised("JSONDecodeError", ""))
    ELSE Return(response.body.obj)

\* request with 404 left out of the statuses it classifies
request_NotFoundUnclassified(response) ==
  IF response.status_code = 401 THEN Unauthorized(response)
  ELSE IF response.status_code = 429 THEN RateLimited(response)
  ELSE IF response.status_code \in {400} THEN BadRequest(response)
  ELSE ReturnJson(response)

request(response) ==
  IF response.status_code = 401 THEN Unauthorized(response)
  ELSE IF response.status_code = 429 THEN RateLimited(response)
  ELSE IF response.status_code \in {400, 404} THEN BadRequest(response)
  ELSE ReturnJson(response)

\* generate_search_url appending the pagination parameters first
generate_search_url_PaginationFirst(options) ==
  LET url == API_BASE_URL \o "/search/" \o options.field \o "/" \o options.query
      p0 == << >>
      p1 == IF Truthy(options.pagination)
              THEN p0 \o << "offset=" \o Str(options.pagination.offset),
                            "limit=" \o Str(options.pagination.limit) >>
              ELSE p0
      params == IF Truthy(options.filter)
                  THEN p1 \o << "filter=" \o options.filter.type,
                                "databases=" \o Join(",", options.filter.databases) >>
                  ELSE p1
  IN  IF Len(params) > 0 THEN url \o "?" \o Join("&", params) ELSE url

(***************************************************************************)
(* HackCheckClient._generate_search_url                                    *)
(***************************************************************************)
generate_search_url(options) ==
  LET url == API_BASE_URL \o "/search/" \o options.field \o "/" \o options.query
      p0 == << >>
      p1 == IF Truthy(options.filter)
              THEN p0 \o << "filter=" \o options.filter.type,
                            "databases=" \o Join(",", options.filter.databases) >>
              ELSE p0
      params == IF Truthy(options.pagination)
                  THEN p1 \o << "offset=" \o Str(options.pagination.offset),
                                "limit=" \o Str(options.pagination.limit) >>
                  ELSE p1
  IN  IF Len(params) > 0 THEN url \o "?" \o Join("&", params) ELSE url

(***************************************************************************)
(* State.                                                                  *)
(*   api_key, http  the two attributes of the client set by __init__;      *)
(*                  http is the identity of the httpx.AsyncClient          *)
(*   http_state     the life-cycle state of that transport handle          *)
(*   scope          position of the caller's `async with` block            *)
(*   scope_failed   whether the block was left by an exception             *)
(*   closes         number of completed close() calls                      *)
(*   calls          one record per call of a public operation: its         *)
(*                  position, its arguments, the request handed to the     *)
(*                  transport, the number of times it was handed over, the *)
(*                  response, whether the success payload was decoded, and *)
(*                  what the call ended in                                 *)
(***************************************************************************)
VARIABLES api_key, http, http_state, scope, scope_failed, closes, calls

vars == <<api_key, http, http_state, scope, scope_failed, closes, calls>>

MaxCloses == 2         \* explicit close() calls in one behaviour

Calls == 1..MaxCalls

NoResponse == [status_code |-> 0, headers |-> << >>, body |-> NotJson]

Pending == [kind |-> "pending", msg |-> "", limit |-> 0, remaining |-> 0, value |-> NoValue]

Idle ==
  [pc |-> "idle", op |-> "", args |-> NoData, method |-> "", url |-> "", body |-> NoBody,
   authorization |-> "", sends |-> 0, response |-> NoResponse,
   decoded |-> FALSE, outcome |-> Pending]

\* HackCheckClient.__init__
InitClient(keys, slots) ==
  /\ api_key \in keys
  /\ http = "AsyncClient"
  /\ http_state = "UNOPENED"
  /\ scope = "constructed"
  /\ scope_failed = FALSE
  /\ closes = 0
  /\ calls = [c \in slots |-> Idle]

(***************************************************************************)
(* HackCheckClient._request up to the await of self._http.request: the     *)
(* Authorization header is built and the call is handed to the transport,  *)
(* once.  A handle that has been closed refuses the call with RuntimeError.*)
(***************************************************************************)
SendRequest(c, op, args, method, url, body) ==
  /\ calls[c].pc = "idle"
  /\ LET sent == [calls[c] EXCEPT !.op = op, !.args = args,
                                  !.method = method, !.url = url,
                                  !.body = json_body(body),
                                  !.authorization = "Bearer " \o api_key,
                                  !.sends = @ + 1]
     IN  IF http_state = "CLOSED"
           THEN /\ calls' = [calls EXCEPT ![c] =
                     [sent EXCEPT !.pc = "done",
                                  !.outcome = Raised("RuntimeError",
                                     "Cannot send a request, as the client has been closed.")]]
                /\ UNCHANGED http_state
           ELSE /\ calls' = [calls EXCEPT ![c] = [sent EXCEPT !.pc = "sent"]]
                /\ http_state' = "OPENED"
  /\ UNCHANGED <<api_key, http, scope, scope_failed, closes>>

search(c, options) ==
  SendRequest(c, "search", options, "GET", generate_search_url(options), PyNone)

check(c, options) ==
  SendRequest(c, "check", options, "POST", API_BASE_URL \o "/check", to_dict(options))

get_monitors(c) ==
  SendRequest(c, "get_monitors", NoData, "GET", API_BASE_URL \o "/monitors", PyNone)

update_asset_monitor(c, monitor_id, params) ==
  SendRequest(c, "update_asset_monitor", params, "PUT",
              API_BASE_URL \o "/monitors/asset/" \o monitor_id, to_dict(params))

update_domain_monitor(c, monitor_id, params) ==
  SendRequest(c, "update_domain_monitor", params, "PUT",
              API_BASE_URL \o "/monitors/domain/" \o monitor_id, to_dict(params))

\* the class each operation hands to from_dict
SuccessClass(op) ==
  CASE op = "search" -> "SearchResponse"
    [] op = "check" -> "CheckResponse"
    [] op = "get_monitors" -> "GetMonitorsResponse"
    [] op = "update_asset_monitor" -> "AssetMonitor"
    [] op = "update_domain_monitor" -> "DomainMonitor"

(***************************************************************************)
(* The rest of a public operation once _request has come back: the decode  *)
(* of the returned dict (check returns the .found of the decoded value).   *)
(***************************************************************************)
Decode(op, json) ==
  LET d == from_dict(SuccessClass(op), json)
  IN  IF ~d.ok THEN Raised("SerdeError", "")
      ELSE IF op = "check"
        THEN Returned([cls |-> "bool", data |-> [found |-> d.value.data.found]])
        ELSE Returned(d.value)

\* Respond handing a rate-limited request to the transport again
Respond_Retry(c, response) ==
  /\ calls[c].pc = "sent"
  /\ LET r == request(response)
     IN  calls' = [calls EXCEPT ![c] =
           IF response.status_code = 429
             THEN [@ EXCEPT !.sends = @ + 1]
             ELSE [@ EXCEPT !.pc = "done",
                            !.response = response,
                            !.decoded = ~r.raised,
                            !.outcome = IF r.raised THEN r.exc
                                        ELSE Decode(calls[c].op, r.json)]]
  /\ UNCHANGED <<api_key, http, http_state, scope, scope_failed, closes>>

\* Respond forgetting the key once the service has rejected it
Respond_DropKey(c, response) ==
  /\ calls[c].pc = "sent"
  /\ LET r == request(response)
     IN  calls' = [calls EXCEPT ![c] =
           [@ EXCEPT !.pc = "done",
                     !.response = response,
                     !.decoded = ~r.raised,
                     !.outcome = IF r.raised THEN r.exc
                                  ELSE Decode(calls[c].op, r.json)]]
  /\ api_key' = IF response.status_code = 401 THEN "" ELSE api_key
  /\ UNCHANGED <<http, http_state, scope, scope_failed, closes>>

(***************************************************************************)
(* The response of the service arrives: _request classifies it and, when   *)
(* it returns, the operation decodes the payload.                          *)
(***************************************************************************)
Respond(c, response) ==
  /\ calls[c].pc = "sent"
  /\ LET r == request(response)
     IN  calls' = [calls EXCEPT ![c] =
           [@ EXCEPT !.pc = "done",
                     !.response = response,
                     !.decoded = ~r.raised,
                     !.outcome = IF r.raised THEN r.exc
                                  ELSE Decode(calls[c].op, r.json)]]
  /\ UNCHANGED <<api_key, http, http_state, scope, scope_failed, closes>>

\* The transport raises instead of answering; the exception leaves _request
\* and the operation unchanged.
TransportFail(c) ==
  /\ calls[c].pc = "sent"
  /\ calls' = [calls EXCEPT ![c] =
        [@ EXCEPT !.pc = "done", !.outcome = Raised("TransportError", "")]]
  /\ UNCHANGED <<api_key, http, http_state, scope, scope_failed, closes>>

(***************************************************************************)
(* HackCheckClient.close: await self._http.aclose().  Closing a handle     *)
(* that is already closed does nothing.                                    *)
(***************************************************************************)
\* aclose releasing only a handle that has carried a request
aclose_OnlyOpened(state) == IF state = "OPENED" THEN "CLOSED" ELSE state

aclose(state) == IF state # "CLOSED" THEN "CLOSED" ELSE state

close ==
  /\ closes < MaxCloses
  /\ http_state' = aclose(http_state)
  /\ closes' = closes + 1
  /\ UNCHANGED <<api_key, http, scope, scope_failed, calls>>

\* HackCheckClient.__aenter__
aenter ==
  /\ scope = "constructed"
  /\ scope' = "entered"
  /\ UNCHANGED <<api_key, http, http_state, scope_failed, closes, calls>>

Failed(call) == call.pc = "done" /\ call.outcome.kind # "ok"

\* aexit closing only when the block ended without an exception
aexit_OnlyOnSuccess(exc) ==
  /\ scope = "entered"
  /\ exc => \E c \in DOMAIN calls : Failed(calls[c])
  /\ scope' = "exited"
  /\ scope_failed' = exc
  /\ http_state' = IF exc THEN http_state ELSE aclose(http_state)
  /\ closes' = closes + 1
  /\ UNCHANGED <<api_key, http, calls>>

(***************************************************************************)
(* HackCheckClient.__aexit__: the block is left, either at its end         *)
(* (exc = FALSE) or by the exception of an operation that failed in it     *)
(* (exc = TRUE); the arguments are ignored and close() is awaited.         *)
(***************************************************************************)
aexit(exc) ==
  /\ scope = "entered"
  /\ exc => \E c \in DOMAIN calls : Failed(calls[c])
  /\ scope' = "exited"
  /\ scope_failed' = exc
  /\ http_state' = aclose(http_state)
  /\ closes' = closes + 1
  /\ UNCHANGED <<api_key, http, calls>>

(***************************************************************************)
(* Inputs: the values callers pass and the responses the service sends.    *)
(***************************************************************************)
ApiKeys == {"YOUR_API_KEY"}

Queries == {"a@b.com", "example"}

DatabaseNames == {"x", "y"}

DatabaseLists == UNION {[1..n -> DatabaseNames] : n \in 0..MaxDatabases}

FilterOptions ==
  {NoFilter} \cup {SearchFilterOptions(t, d) : t \in SearchFilters, d \in DatabaseLists}

PaginationOptions ==
  {NoPagination} \cup
  {SearchPaginationOptions(o, l) : o \in 0..MaxOffset, l \in 1..MaxLimit}

SearchOptionsAll ==
  {SearchOptions(f, q, fl, pg) :
     f \in SearchFields, q \in Queries, fl \in FilterOptions, pg \in PaginationOptions}

SearchOptionsFew ==
  {SearchOptions("email", "a@b.com", fl, SearchPaginationOptions(0, 10)) :
     fl \in {NoFilter, SearchFilterOptions("use", <<"x", "y">>)}}

CheckOptionsAll == {CheckOptions(f, q) : f \in SearchFields, q \in Queries}

MonitorIds == {"m1"}

AssetParams == {UpdateAssetMonitorParams("email", "a@b.com", "n@x.com")}

DomainParams == {UpdateDomainMonitorParams("b.com", "n@x.com")}

ErrorStrings ==
  {"Invalid API key.", "Unauthorized IP address.", "bad field", "invalid api key.", ""}

\* a payload the operation's success class decodes
GoodPayloads(op) ==
  CASE op = "search" ->
         {[databases |-> 1, results |-> << >>, first_seen |-> "", last_seen |-> ""],
          [databases |-> 1, results |-> << >>, first_seen |-> "", last_seen |-> "",
           pagination |-> [document_count |-> 0]]}
    [] op = "check" -> {[found |-> TRUE], [found |-> FALSE]}
    [] op = "get_monitors" -> {[asset_monitors |-> << >>, domain_monitors |-> << >>]}
    [] op = "update_asset_monitor" ->
         {[id |-> "m1", status |-> 0, type |-> "email", asset |-> "a@b.com",
           notification_email |-> "n@x.com", expires_soon |-> FALSE,
           created_at |-> "2024-01-01T00:00:00", ends_at |-> "2025-01-01T00:00:00"]}
    [] op = "update_domain_monitor" ->
         {[id |-> "m1", status |-> 1, domain |-> "b.com",
           notification_email |-> "n@x.com", expires_soon |-> TRUE,
           created_at |-> "2024-01-01T00:00:00", ends_at |-> "2025-01-01T00:00:00"]}

WithError(obj, message) ==
  [k \in DOMAIN obj \cup {"error"} |-> IF k = "error" THEN message ELSE obj[k]]

Bodies(op) ==
  {NotJson}
    \cup {JsonObject([error |-> m]) : m \in ErrorStrings}
    \cup {JsonObject([message |-> "no error key"])}
    \cup {JsonObject(g) : g \in GoodPayloads(op)}
    \cup {JsonObject(WithError(g, "bad field")) : g \in GoodPayloads(op)}

HeaderNames == {"X-HackCheck-Limit", "X-HackCheck-Remaining"}

HeaderValues ==
  {<<"1", "0", "0">>, <<"0">>, <<" ", "7", " ">>, <<"-", "1">>, <<"+", "5">>,
   <<"a", "b", "c">>, <<"1", "x">>, << >>}

HeaderSets == UNION {[names -> HeaderValues] : names \in SUBSET HeaderNames}

NoHeaders == [n \in {} |-> << >>]

StatusCodes == {200, 201, 400, 401, 404, 429, 500}

Response(status_code, headers, body) ==
  [status_code |-> status_code, headers |-> headers, body |-> body]

Responses(op) ==
  {Response(st, NoHeaders, b) : st \in StatusCodes, b \in Bodies(op)}
    \cup {Response(429, h, JsonObject([error |-> "Rate limit reached."])) : h \in HeaderSets}

ResponsesFew(op) ==
  LET g == CHOOSE p \in GoodPayloads(op) : TRUE
  IN  {Response(200, NoHeaders, JsonObject(g)),
       Response(404, NoHeaders, JsonObject(WithError(g, "bad field"))),
       Response(401, NoHeaders, JsonObject([error |-> "Invalid API key."])),
       Response(429, [n \in HeaderNames |-> <<"0">>],
                JsonObject([error |-> "Rate limit reached."]))}

(***************************************************************************)
(* Spec: one client used by overlapping calls, inside or outside an        *)
(* `async with` block, with explicit close() calls at any time.            *)
(***************************************************************************)
Init == InitClient(ApiKeys, Calls)

Next ==
  \/ \E c \in Calls, o \in SearchOptionsFew : ~o.filter.present /\ search(c, o)
  \/ \E c \in Calls, o \in CheckOptionsAll : o.vals = <<"email", "a@b.com">> /\ check(c, o)
  \/ \E c \in Calls : get_monitors(c)
  \/ \E c \in Calls, m \in MonitorIds, p \in AssetParams : update_asset_monitor(c, m, p)
  \/ \E c \in Calls, m \in MonitorIds, p \in DomainParams : update_domain_monitor(c, m, p)
  \/ \E c \in Calls : calls[c].pc = "sent" /\
       \E r \in ResponsesFew(calls[c].op) : Respond(c, r)
  \/ \E c \in Calls : TransportFail(c)
  \/ close
  \/ aenter
  \/ \E exc \in BOOLEAN : aexit(exc)

Spec == Init /\ [][Next]_vars

(***************************************************************************)
(* SpecExchange: one call at a time of each operation, answered by every   *)
(* response of Responses.                                                  *)
(***************************************************************************)
InitExchange == InitClient(ApiKeys, {1})

NextExchange ==
  \/ \E o \in SearchOptionsFew : search(1, o)
  \/ \E o \in CheckOptionsAll : check(1, o)
  \/ get_monitors(1)
  \/ \E m \in MonitorIds, p \in AssetParams : update_asset_monitor(1, m, p)
  \/ \E m \in MonitorIds, p \in DomainParams : update_domain_monitor(1, m, p)
  \/ calls[1].pc = "sent" /\ \E r \in Responses(calls[1].op) : Respond(1, r)
  \/ TransportFail(1)

SpecExchange == InitExchange /\ [][NextExchange]_vars

(***************************************************************************)
(* SpecUrl: the search URL built for every SearchOptions value.            *)
(***************************************************************************)
NextUrl == calls[1].pc = "idle" /\ \E o \in SearchOptionsAll : search(1, o)

SpecUrl == InitExchange /\ [][NextUrl]_vars

(***************************************************************************)
(* Properties.                                                             *)
(***************************************************************************)
Done(c) == calls[c].pc = "done"

Answered(c) == Done(c) /\ calls[c].response.status_code # 0

HasErrorString(response) ==
  response.body.json = "object" /\ "error" \in DOMAIN response.body.obj

\* C1: in each of the five operations a response with status 401, 429, 400
\* or 404 ends the call in a failure: the success payload is never decoded
\* from it and no typed result is returned.
C1_ClassifiedBeforeDecode ==
  \A c \in DOMAIN calls :
    (Answered(c) /\ calls[c].response.status_code \in {401, 429, 400, 404})
      => /\ ~calls[c].decoded
         /\ calls[c].outcome.kind # "ok"
         /\ calls[c].outcome.value = NoValue

\* a 404 whose body the operation's success class would decode has ended in
\* a failure
C1_Witness ==
  \E c \in DOMAIN calls :
    /\ Answered(c)
    /\ calls[c].response.status_code = 404
    /\ calls[c].response.body.json = "object"
    /\ from_dict(SuccessClass(calls[c].op), calls[c].response.body.obj).ok
    /\ calls[c].outcome.kind # "ok"

\* C2: a 401 response carrying an error string fails with InvalidAPIKeyError
\* for "Invalid API key.", with UnauthorizedIPAddressError for
\* "Unauthorized IP address." and with ServerError for every other string.
C2_UnauthorizedKinds ==
  \A c \in DOMAIN calls :
    (Answered(c) /\ calls[c].response.status_code = 401
       /\ HasErrorString(calls[c].response))
      => LET error == calls[c].response.body.obj.error
             kind == calls[c].outcome.kind
         IN  /\ error = "Invalid API key." => kind = "InvalidAPIKeyError"
             /\ error = "Unauthorized IP address." => kind = "UnauthorizedIPAddressError"
             /\ error \notin {"Invalid API key.", "Unauthorized IP address."}
                  => kind = "ServerError"

C2_Witness ==
  \E c \in DOMAIN calls :
    /\ Answered(c)
    /\ calls[c].response.status_code = 401
    /\ HasErrorString(calls[c].response)
    /\ calls[c].response.body.obj.error = "Unauthorized IP address."
    /\ calls[c].outcome.kind = "UnauthorizedIPAddressError"

\* the integer a rate-limit header stands for: its parsed value, and 0 when
\* the header is absent or does not parse
HeaderOrZero(headers, name) ==
  IF name \in DOMAIN headers /\ PyInt(headers[name]).ok THEN PyInt(headers[name]).val ELSE 0

\* C3: every 429 response fails with RateLimitError whose limit and
\* remaining are the integers of X-HackCheck-Limit and
\* X-HackCheck-Remaining, each 0 when its header is absent or unparseable.
C3_RateLimitAlways ==
  \A c \in DOMAIN calls :
    (Answered(c) /\ calls[c].response.status_code = 429)
      => /\ calls[c].outcome.kind = "RateLimitError"
         /\ calls[c].outcome.limit =
              HeaderOrZero(calls[c].response.headers, "X-HackCheck-Limit")
         /\ calls[c].outcome.remaining =
              HeaderOrZero(calls[c].response.headers, "X-HackCheck-Remaining")

\* C4: a 400 or 404 response carrying an error string fails with a plain
\* Exception whose message is that string, unchanged.
C4_MessageVerbatim ==
  \A c \in DOMAIN calls :
    (Answered(c) /\ calls[c].response.status_code \in {400, 404}
       /\ HasErrorString(calls[c].response))
      => /\ calls[c].outcome.kind = "Exception"
         /\ calls[c].outcome.msg = calls[c].response.body.obj.error

C4_Witness ==
  \E c \in DOMAIN calls :
    /\ Answered(c)
    /\ calls[c].response.status_code = 400
    /\ HasErrorString(calls[c].response)
    /\ calls[c].response.body.obj.error = "bad field"
    /\ calls[c].outcome.msg = "bad field"

\* C5: the search URL is {base}/search/{field}/{query}, followed by
\* ?filter={mode}&databases={names joined by commas} when a filter is
\* present, by ?offset={offset}&limit={limit} when pagination is present, by
\* both in that order joined with & when both are, and by nothing when
\* neither is.
C5_SearchUrl ==
  \A c \in DOMAIN calls :
    (calls[c].pc # "idle" /\ calls[c].op = "search")
      => LET o == calls[c].args
             base == API_BASE_URL \o "/search/" \o o.field \o "/" \o o.query
             f == "filter=" \o o.filter.type \o "&databases="
                    \o Join(",", o.filter.databases)
             p == "offset=" \o ToString(o.pagination.offset) \o "&limit="
                    \o ToString(o.pagination.limit)
         IN  calls[c].url =
               CASE o.filter.present /\ o.pagination.present -> base \o "?" \o f \o "&" \o p
                 [] o.filter.present /\ ~o.pagination.present -> base \o "?" \o f
                 [] ~o.filter.present /\ o.pagination.present -> base \o "?" \o p
                 [] ~o.filter.present /\ ~o.pagination.present -> base

\* a search with a two-database filter and a two-digit offset has been sent
C5_Witness ==
  \E c \in DOMAIN calls :
    /\ calls[c].pc # "idle"
    /\ calls[c].op = "search"
    /\ calls[c].args.filter.present
    /\ Len(calls[c].args.filter.databases) = 2
    /\ calls[c].args.pagination.present
    /\ calls[c].args.pagination.offset >= 10

\* C6: check sends a POST to /check whose body is a JSON object with exactly
\* the fields field and query of its CheckOptions.
C6_CheckBody ==
  \A c \in DOMAIN calls :
    (calls[c].pc # "idle" /\ calls[c].op = "check")
      => /\ calls[c].method = "POST"
         /\ calls[c].url = API_BASE_URL \o "/check"
         /\ calls[c].body.json = "object"
         /\ calls[c].body.keys = <<"field", "query">>
         /\ calls[c].body.vals = calls[c].args.vals

\* C7: once the `async with` block of a client has been left, at its end or
\* by the failure of an operation, the transport handle is released.
C7_ReleasedOnExit == scope = "exited" => http_state = "CLOSED"

\* the block was left by the failure of one of its operations
C7_Witness ==
  /\ scope = "exited"
  /\ scope_failed
  /\ \E c \in DOMAIN calls : Failed(calls[c]) /\ calls[c].response.status_code = 401
  /\ http_state = "CLOSED"

\* C8: every close, after any calls or none, leaves the handle released, and
\* a close of a released handle changes nothing of the client or its calls.
C8_CloseIdempotent ==
  [][closes' # closes
       => /\ http_state' = "CLOSED"
          /\ http_state = "CLOSED" => UNCHANGED <<api_key, http, http_state, calls>>]_vars

\* closed twice without any call having been made
C8_Witness ==
  /\ closes = MaxCloses
  /\ http_state = "CLOSED"
  /\ \A c \in DOMAIN calls : calls[c].pc = "idle"

\* C9: a call hands its request to the transport exactly once, and once it
\* is over what it ended in is with the caller: a failure neither issues the
\* request again nor goes unreported.
C9_OneExchange ==
  \A c \in DOMAIN calls :
    /\ calls[c].pc = "idle" => calls[c].sends = 0
    /\ calls[c].pc # "idle" => calls[c].sends = 1
    /\ Done(c) => calls[c].outcome.kind # "pending"
    /\ (Answered(c) /\ calls[c].response.status_code \in {401, 429, 400, 404})
         => calls[c].outcome.kind # "ok"

\* a rate-limited call is over after its one exchange
C9_Witness ==
  \E c \in DOMAIN calls :
    /\ Answered(c)
    /\ calls[c].response.status_code = 429
    /\ calls[c].outcome.kind = "RateLimitError"
    /\ calls[c].sends = 1

\* C10: with calls overlapping on one client, no step of an operation
\* changes the API key or the transport handle, closes the handle or touches
\* another call, and two answered calls of the same operation with the same
\* response end in the same way.
C10_NoSharedMutation ==
  [][/\ calls' # calls
          => /\ api_key' = api_key
             /\ http' = http
             /\ (http_state' = "CLOSED") <=> (http_state = "CLOSED")
             /\ \A c, d \in DOMAIN calls :
                  (calls'[c] # calls[c] /\ d # c) => calls'[d] = calls[d]
     /\ \A c \in DOMAIN calls :
          calls'[c].pc # "idle" => calls'[c].authorization = "Bearer " \o api_key'
     /\ \A c, d \in DOMAIN calls :
          (/\ calls'[c].pc = "done" /\ calls'[c].response.status_code # 0
           /\ calls'[d].pc = "done" /\ calls'[d].response.status_code # 0
           /\ calls'[c].op = calls'[d].op
           /\ calls'[c].response = calls'[d].response)
            => calls'[c].outcome = calls'[d].outcome]_vars

\* two calls were in flight together and ended differently
C10_Witness ==
  \E c, d \in DOMAIN calls :
    /\ c # d
    /\ Answered(c) /\ calls[c].outcome.kind = "InvalidAPIKeyError"
    /\ Answered(d) /\ calls[d].outcome.kind = "ok"

====
